---- MODULE Spec2Model ----
(***************************************************************************)
(* ActionModel (mlagents/trainers/torch/action_model.py): the module that  *)
(* builds the distribution instances of a hybrid (continuous + discrete)   *)
(* action space, samples actions, scores supplied actions and exports the  *)
(* deterministic outputs.                                                  *)
(*                                                                         *)
(* Tensors are modelled by their shape and by the symbolic source of each  *)
(* entry of their last axis.  The batch axis is axis 1 of every shape.     *)
(***************************************************************************)
EXTENDS Integers, Sequences, FiniteSets, TLC

\* ------------------------------------------------------------------ bounds
MaxCont == 3
MaxBranches == 2
MaxBranchSize == 3
RngMod == 2
BatchSize == 2

Encodings == {"e1", "e2"}
ActionIds == {"a1"}

\* ------------------------------------------------------------------ state
VARIABLES
    continuous_act_size,     \* self.continuous_act_size
    discrete_act_branches,   \* self.discrete_act_branches
    discrete_act_size,       \* self.discrete_act_size
    _split_list,             \* self._split_list
    _distributions,          \* self._distributions (the module list)
    rng,                     \* state of the random generator sample() reads
    last,                    \* the last call: its inputs, locals and result
    watched                  \* one earlier evaluate call, kept for comparison

vars == <<continuous_act_size, discrete_act_branches, discrete_act_size,
          _split_list, _distributions, rng, last, watched>>

\* ------------------------------------------------------------------ helpers
RECURSIVE Sum(_)
Sum(s) == IF Len(s) = 0 THEN 0 ELSE Head(s) + Sum(Tail(s))

Min(a, b) == IF a <= b THEN a ELSE b

RECURSIVE Flatten(_)
Flatten(ss) == IF Len(ss) = 0 THEN <<>> ELSE Head(ss) \o Flatten(Tail(ss))

BranchSeqs == UNION {[1..n -> 1..MaxBranchSize] : n \in 0..MaxBranches}

NoMask == -1
NoDist == [kind |-> "none", branch |-> 0, n |-> 0, enc |-> "none", mask |-> NoMask]
NoTensor == [shape |-> <<>>, data |-> <<>>]

\* ------------------------------------------------------------------ ActionSpec
\* ActionSpec.discrete_action_size: the number of discrete branches.
discrete_action_size(branches) == Len(branches)

\* ------------------------------------------------------------------ __init__
\* variant: the discrete part entered as one block, like the continuous one
init_split_list_one_block(cont, dsize) ==
    (IF cont > 0 THEN <<cont>> ELSE <<>>) \o <<dsize>>

\* self._split_list after construction
init_split_list(cont, dsize) ==
    (IF cont > 0 THEN <<cont>> ELSE <<>>)
        \o (IF dsize > 0 THEN [i \in 1..dsize |-> 1] ELSE <<>>)

\* self._distributions after construction
init_distributions(cont, branches, dsize) ==
    (IF cont > 0
        THEN <<[kind |-> "Gaussian", act_size |-> cont, branches |-> <<>>]>>
        ELSE <<>>)
        \o (IF dsize > 0
              THEN <<[kind |-> "MultiCategorical", act_size |-> 0,
                      branches |-> branches]>>
              ELSE <<>>)

\* ------------------------------------------------------------------ tensors
\* the actions tensor a caller hands to evaluate: [BatchSize, width]
ActionsTensor(id, width) ==
    [shape |-> <<BatchSize, width>>,
     data  |-> [j \in 1..width |->
                  [src |-> "actions", dist |-> NoDist, id |-> id, col |-> j]]]

\* variant: slices what is there instead of rejecting a width that differs
torch_split_lenient(t, sizes) ==
    [ok |-> TRUE,
     blocks |-> [k \in 1..Len(sizes) |->
         [shape |-> <<t.shape[1], sizes[k]>>,
          data  |-> SubSeq(t.data,
                           Min(Sum(SubSeq(sizes, 1, k - 1)), Len(t.data)) + 1,
                           Min(Sum(SubSeq(sizes, 1, k)), Len(t.data)))]]]

\* torch.split(t, sizes, dim=1): the sizes must sum to the width of t
torch_split(t, sizes) ==
    IF Sum(sizes) # t.shape[2]
    THEN [ok |-> FALSE, blocks |-> <<>>]
    ELSE [ok |-> TRUE,
          blocks |-> [k \in 1..Len(sizes) |->
              [shape |-> <<t.shape[1], sizes[k]>>,
               data  |-> SubSeq(t.data,
                                Sum(SubSeq(sizes, 1, k - 1)) + 1,
                                Sum(SubSeq(sizes, 1, k)))]]]

\* [t[..., i] for i in range(t.shape[-1])]: one 1-D tensor per column
columns(t) ==
    [i \in 1..t.shape[Len(t.shape)] |->
        [shape |-> SubSeq(t.shape, 1, Len(t.shape) - 1), data |-> <<t.data[i]>>]]

\* t.unsqueeze(-1)
unsqueeze(t) == [shape |-> Append(t.shape, 1), data |-> t.data]

\* variant: concatenation along the batch axis (dim=0)
torch_cat_dim0(ts) ==
    IF Len(ts) = 0
    THEN [ok |-> FALSE, t |-> NoTensor]
    ELSE [ok |-> TRUE,
          t  |-> [shape |-> <<Sum([i \in 1..Len(ts) |-> ts[i].shape[1]]),
                              ts[1].shape[2]>>,
                  data  |-> ts[1].data]]

\* torch.cat(ts, dim=1) of 2-D tensors; an empty list is an error
torch_cat(ts) ==
    IF Len(ts) = 0
    THEN [ok |-> FALSE, t |-> NoTensor]
    ELSE [ok |-> TRUE,
          t  |-> [shape |-> <<ts[1].shape[1],
                              Sum([i \in 1..Len(ts) |-> ts[i].shape[2]])>>,
                  data  |-> Flatten([i \in 1..Len(ts) |-> ts[i].data])]]

\* ------------------------------------------------------------------ distributions
\* distribution(inputs, masks): the instances one factory produces.  The
\* Gaussian factory ignores the mask and gives one instance; the
\* multi-categorical factory gives one instance per branch and rejects a
\* mask whose width is not the total number of discrete choices.
distribution_call(d, inputs, masks) ==
    IF d.kind = "Gaussian"
    THEN [ok |-> TRUE,
          insts |-> <<[kind |-> "Gaussian", branch |-> 0, n |-> d.act_size,
                       enc |-> inputs, mask |-> NoMask]>>]
    ELSE IF masks # Sum(d.branches)
    THEN [ok |-> FALSE, insts |-> <<>>]
    ELSE [ok |-> TRUE,
          insts |-> [k \in 1..Len(d.branches) |->
                       [kind |-> "Categorical", branch |-> k, n |-> d.branches[k],
                        enc |-> inputs, mask |-> masks]]]

\* dist.sample() with the generator in state g: a Gaussian instance gives
\* [batch, n], a categorical instance gives [batch, 1] (one chosen index)
sample(dist, g) ==
    LET w == IF dist.kind = "Gaussian" THEN dist.n ELSE 1 IN
    [shape |-> <<BatchSize, w>>,
     data  |-> [j \in 1..w |->
                  [src |-> "sample", dist |-> dist, id |-> g, col |-> j]]]

\* dist.structure_action(a) of a sample unsqueezed to [batch, w, 1]: the
\* continuous sample keeps its width, a discrete one is a single column
structure_action(dist, a) ==
    IF dist.kind = "Gaussian"
    THEN [shape |-> <<a.shape[1], a.shape[2]>>, data |-> a.data]
    ELSE [shape |-> <<a.shape[1], a.shape[3]>>, data |-> a.data]

\* dist.exported_model_output()
exported_model_output(dist) == [exported |-> dist]

\* ModelUtils.get_probs_and_entropy(action_list, dists): each action scored
\* against the instance at the same position, the terms summed
get_probs_and_entropy(action_list, dists) ==
    [log_probs |-> [i \in 1..Min(Len(action_list), Len(dists)) |->
                      [dist |-> dists[i], value |-> action_list[i]]],
     entropies |-> [i \in 1..Min(Len(action_list), Len(dists)) |->
                      [dist |-> dists[i]]]]

\* ------------------------------------------------------------------ ActionModel
\* the record of one call, before anything is computed
Call(op, inputs, masks, actions) ==
    [op |-> op, inputs |-> inputs, masks |-> masks, actions |-> actions,
     ok |-> FALSE, err |-> "none",
     got_dists |-> FALSE, dists |-> <<>>, action_lists |-> <<>>,
     log_probs |-> <<>>, entropies |-> <<>>, action |-> NoTensor,
     continuous_out |-> <<>>, discrete_out |-> <<>>, combined_out |-> <<>>,
     draws |-> 0]

RECURSIVE get_dists_from(_, _, _)
get_dists_from(distributions, inputs, masks) ==
    IF Len(distributions) = 0
    THEN [ok |-> TRUE, insts |-> <<>>]
    ELSE LET first == distribution_call(Head(distributions), inputs, masks)
             rest  == get_dists_from(Tail(distributions), inputs, masks)
         IN  IF first.ok /\ rest.ok
             THEN [ok |-> TRUE, insts |-> first.insts \o rest.insts]
             ELSE [ok |-> FALSE, insts |-> <<>>]

\* variant: the instances of the previous call kept and handed out again
_get_dists_cached(inputs, masks) ==
    IF last.got_dists
    THEN [ok |-> TRUE, insts |-> last.dists]
    ELSE get_dists_from(_distributions, inputs, masks)

\* variant: only the first instance of each factory appended
_get_dists_first_only(inputs, masks) ==
    LET all == [i \in 1..Len(_distributions) |->
                   distribution_call(_distributions[i], inputs, masks)]
    IN  IF \E i \in 1..Len(all) : ~all[i].ok
        THEN [ok |-> FALSE, insts |-> <<>>]
        ELSE [ok |-> TRUE, insts |-> [i \in 1..Len(all) |-> all[i].insts[1]]]

_get_dists(inputs, masks) == get_dists_from(_distributions, inputs, masks)

\* variant: the instances sampled in reverse order
_sample_action_reversed(dists, g) ==
    [i \in 1..Len(dists) |->
        sample(dists[Len(dists) + 1 - i], (g + i - 1) % RngMod)]

\* one sample per instance, in order; draw i reads generator state g + i - 1
_sample_action(dists, g) ==
    [i \in 1..Len(dists) |-> sample(dists[i], (g + i - 1) % RngMod)]

\* variant: scores freshly drawn samples, as forward does
evaluate_sampling(inputs, masks, actions) ==
    LET call == Call("evaluate", inputs, masks, actions)
        got  == _get_dists(inputs, masks)
    IN
    IF ~got.ok THEN [call EXCEPT !.err = "ShapeMismatch"]
    ELSE
    LET split_actions == torch_split(actions, _split_list) IN
    IF ~split_actions.ok
    THEN [call EXCEPT !.err = "ShapeMismatch", !.got_dists = TRUE,
                      !.dists = got.insts]
    ELSE
    LET action_lists == _sample_action(got.insts, rng)
        scored == get_probs_and_entropy(action_lists, got.insts)
    IN  [call EXCEPT !.ok = TRUE, !.got_dists = TRUE, !.dists = got.insts,
                     !.action_lists = action_lists,
                     !.log_probs = scored.log_probs,
                     !.entropies = scored.entropies,
                     !.draws = Len(action_lists)]

evaluate(inputs, masks, actions) ==
    LET call == Call("evaluate", inputs, masks, actions)
        got  == _get_dists(inputs, masks)
    IN
    IF ~got.ok THEN [call EXCEPT !.err = "ShapeMismatch"]
    ELSE
    LET split_actions == torch_split(actions, _split_list) IN
    IF ~split_actions.ok
    THEN [call EXCEPT !.err = "ShapeMismatch", !.got_dists = TRUE,
                      !.dists = got.insts]
    ELSE
    LET action_lists ==
            Flatten([k \in 1..Len(split_actions.blocks) |->
                        columns(split_actions.blocks[k])])
        scored == get_probs_and_entropy(action_lists, got.insts)
    IN  [call EXCEPT !.ok = TRUE, !.got_dists = TRUE, !.dists = got.insts,
                     !.action_lists = action_lists,
                     !.log_probs = scored.log_probs,
                     !.entropies = scored.entropies]

get_action_out(inputs, masks) ==
    LET call == Call("get_action_out", inputs, masks, NoTensor)
        got  == _get_dists(inputs, masks)
    IN
    IF ~got.ok THEN [call EXCEPT !.err = "ShapeMismatch"]
    ELSE IF Len(got.insts) < 2
    THEN [call EXCEPT !.err = "IndexError", !.got_dists = TRUE,
                      !.dists = got.insts]
    ELSE [call EXCEPT !.ok = TRUE, !.got_dists = TRUE, !.dists = got.insts,
              !.continuous_out = <<exported_model_output(got.insts[1])>>,
              !.discrete_out = <<exported_model_output(got.insts[2])>>,
              !.combined_out = [i \in 1..Len(got.insts) |->
                                   exported_model_output(got.insts[i])]]

forward(inputs, masks) ==
    LET call == Call("forward", inputs, masks, NoTensor)
        got  == _get_dists(inputs, masks)
    IN
    IF ~got.ok THEN [call EXCEPT !.err = "ShapeMismatch"]
    ELSE
    LET dists == got.insts
        action_lists == _sample_action(dists, rng)
        action_outs ==
            [i \in 1..Min(Len(action_lists), Len(dists)) |->
                structure_action(dists[i], unsqueeze(action_lists[i]))]
        scored == get_probs_and_entropy(action_lists, dists)
        action == torch_cat(action_outs)
        done == [call EXCEPT !.got_dists = TRUE, !.dists = dists,
                             !.action_lists = action_lists,
                             !.draws = Len(action_lists)]
    IN  IF ~action.ok
        THEN [done EXCEPT !.err = "EmptyList"]
        ELSE [done EXCEPT !.ok = TRUE, !.action = action.t,
                          !.log_probs = scored.log_probs,
                          !.entropies = scored.entropies]

\* ------------------------------------------------------------------ inputs
MaskWidths == {Sum(discrete_act_branches), Sum(discrete_act_branches) + 1}

ActionWidths ==
    LET w == Sum(_split_list) IN {x \in {w - 1, w, w + 1} : x >= 0}

NoWatch == [set |-> FALSE, rng |-> 0, call |-> Call("none", "none", NoMask, NoTensor)]

\* ------------------------------------------------------------------ machine
Init ==
    \E cont \in 0..MaxCont, branches \in BranchSeqs :
        /\ continuous_act_size = cont
        /\ discrete_act_branches = branches
        /\ discrete_act_size = discrete_action_size(branches)
        /\ _split_list = init_split_list(cont, discrete_action_size(branches))
        /\ _distributions =
               init_distributions(cont, branches, discrete_action_size(branches))
        /\ rng \in 0..(RngMod - 1)
        /\ last = Call("none", "none", NoMask, NoTensor)
        /\ watched = NoWatch

Frame ==
    UNCHANGED <<continuous_act_size, discrete_act_branches, discrete_act_size,
                _split_list, _distributions>>

Forward ==
    \E inputs \in Encodings, masks \in MaskWidths :
        /\ last' = forward(inputs, masks)
        /\ rng' = (rng + last'.draws) % RngMod
        /\ Frame /\ UNCHANGED watched

Evaluate ==
    \E inputs \in Encodings, masks \in MaskWidths,
       id \in ActionIds, width \in ActionWidths :
        /\ last' = evaluate(inputs, masks, ActionsTensor(id, width))
        /\ rng' = (rng + last'.draws) % RngMod
        /\ Frame /\ UNCHANGED watched

\* evaluate, with the call optionally kept for a later comparison
EvaluateWatch ==
    \E inputs \in Encodings, masks \in MaskWidths,
       id \in ActionIds, width \in ActionWidths, keep \in BOOLEAN :
        /\ last' = evaluate(inputs, masks, ActionsTensor(id, width))
        /\ rng' = (rng + last'.draws) % RngMod
        /\ watched' = IF keep /\ ~watched.set
                      THEN [set |-> TRUE, rng |-> rng, call |-> last']
                      ELSE watched
        /\ Frame

GetActionOut ==
    \E inputs \in Encodings, masks \in MaskWidths :
        /\ last' = get_action_out(inputs, masks)
        /\ rng' = (rng + last'.draws) % RngMod
        /\ Frame /\ UNCHANGED watched

Next == Forward \/ Evaluate \/ GetActionOut

Spec == Init /\ [][Next]_vars

NextWatch == Forward \/ EvaluateWatch \/ GetActionOut

\* The comparison of two evaluate calls runs over the modules whose branches all
\* have MaxBranchSize choices: evaluate reads the branch sizes only through the
\* instances the factory hands back.
InitWatch ==
    /\ Init
    /\ \A k \in 1..Len(discrete_act_branches) :
           discrete_act_branches[k] = MaxBranchSize

SpecWatch == InitWatch /\ [][NextWatch]_vars

\* ------------------------------------------------------------------ properties
C == continuous_act_size
D == discrete_act_size
Offset == IF C > 0 THEN 1 ELSE 0

\* C1: evaluate on actions of width C + D scores as many pieces as there are
\* instances, the continuous instance getting the whole continuous block and
\* the k-th discrete instance the column of branch k.
C1_EvaluatePairing ==
    (last.op = "evaluate" /\ last.ok /\ C + D >= 1) =>
        /\ Len(last.action_lists) = Len(last.dists)
        /\ Len(last.log_probs) = Len(last.dists)
        /\ \A i \in 1..Min(Len(last.dists), Len(last.action_lists)) :
              LET d == last.dists[i] IN
              last.action_lists[i].data =
                  IF d.kind = "Gaussian"
                  THEN SubSeq(last.actions.data, 1, C)
                  ELSE <<last.actions.data[C + d.branch]>>

\* C2: get_action_out returns a full triple whose continuous part is the
\* continuous instance's exported form (empty when C = 0) and whose discrete
\* part is the discrete instances' exported form (empty when D = 0).
C2_ExportTriple ==
    (last.op = "get_action_out" /\ last.got_dists /\ C + D >= 1) =>
        /\ last.ok
        /\ last.continuous_out =
              (IF C > 0 THEN <<exported_model_output(last.dists[1])>> ELSE <<>>)
        /\ last.discrete_out =
              [k \in 1..D |-> exported_model_output(last.dists[Offset + k])]

\* C3: the action forward returns has width C + D; the continuous sample
\* gives C columns and each discrete branch one column, whatever its size.
C3_ActionWidth ==
    (last.op = "forward" /\ last.ok) =>
        /\ last.action.shape = <<BatchSize, C + D>>
        /\ Len(last.action.data) = C + D
        /\ \A j \in 1..C : last.action.data[j].dist.kind = "Gaussian"
        /\ \A k \in 1..D : last.action.data[C + k].dist.branch = k

C3_Witness ==
    /\ last.op = "forward" /\ last.ok
    /\ C = 2 /\ discrete_act_branches = <<2, 3>>

\* C4: the split plan is [C] (only if C > 0) followed by D ones: positive
\* entries, length (1 if C > 0) + D, sum C + D, whatever the branch sizes.
C4_SplitPlan ==
    /\ Len(_split_list) = Offset + D
    /\ C > 0 => _split_list[1] = C
    /\ \A k \in 1..D : _split_list[Offset + k] = 1
    /\ \A i \in 1..Len(_split_list) : _split_list[i] > 0
    /\ Sum(_split_list) = C + D

C4_Witness ==
    /\ C = 3 /\ discrete_act_branches = <<3, 2>>
    /\ _split_list = <<3, 1, 1>>

\* C5: forward draws one sample from each instance, scores the i-th sample
\* against the i-th instance, adds every instance's entropy, and returns the
\* scored samples as the action.
C5_SampleAndScore ==
    (last.op = "forward" /\ last.ok) =>
        /\ last.draws = Len(last.dists)
        /\ Len(last.action_lists) = Len(last.dists)
        /\ \A i \in 1..Len(last.action_lists) :
              \A j \in 1..Len(last.action_lists[i].data) :
                  last.action_lists[i].data[j].dist = last.dists[i]
        /\ last.log_probs =
              [i \in 1..Len(last.dists) |->
                  [dist |-> last.dists[i], value |-> last.action_lists[i]]]
        /\ last.entropies = [i \in 1..Len(last.dists) |-> [dist |-> last.dists[i]]]
        /\ last.action.data =
              Flatten([i \in 1..Len(last.action_lists) |->
                          last.action_lists[i].data])

C5_Witness ==
    /\ last.op = "forward" /\ last.ok
    /\ Len(last.dists) = 3 /\ Len(last.log_probs) = 3

\* C6: every call that obtains the instances gets (1 if C > 0) + D of them,
\* the continuous one first and the discrete ones in branch order.
C6_DistsOrder ==
    last.got_dists =>
        /\ Len(last.dists) = Offset + D
        /\ C > 0 => (last.dists[1].kind = "Gaussian" /\ last.dists[1].n = C)
        /\ \A k \in 1..D :
              LET d == last.dists[Offset + k] IN
              /\ d.kind = "Categorical"
              /\ d.branch = k
              /\ d.n = discrete_act_branches[k]

C6_Witness ==
    /\ last.op = "get_action_out" /\ last.got_dists
    /\ C > 0 /\ D = 2 /\ Len(last.dists) = 3

\* C7: evaluate on actions whose width is not C + D fails with a shape
\* mismatch and scores nothing.
C7_EvaluateWidthMismatch ==
    (last.op = "evaluate" /\ last.actions.shape[2] # C + D) =>
        /\ ~last.ok
        /\ last.err = "ShapeMismatch"
        /\ last.action_lists = <<>>
        /\ last.log_probs = <<>>
        /\ last.entropies = <<>>

C7_Witness ==
    /\ last.op = "evaluate" /\ last.got_dists /\ C + D >= 1
    /\ last.actions.shape[2] = C + D + 1
    /\ ~last.ok

\* C8: evaluate and get_action_out draw no sample, and an evaluate call
\* returns what an earlier evaluate call with the same encoding, mask and
\* actions returned, whatever was called in between.
C8_EvaluateDeterministic ==
    /\ last.op \in {"evaluate", "get_action_out"} => last.draws = 0
    /\ (/\ watched.set
        /\ last.op = "evaluate"
        /\ last.inputs = watched.call.inputs
        /\ last.masks = watched.call.masks
        /\ last.actions = watched.call.actions)
       => (/\ last.ok = watched.call.ok
           /\ last.err = watched.call.err
           /\ last.log_probs = watched.call.log_probs
           /\ last.entropies = watched.call.entropies)

C8_Witness ==
    /\ watched.set /\ watched.call.ok /\ Len(watched.call.log_probs) >= 2
    /\ last.op = "evaluate"
    /\ last.inputs = watched.call.inputs
    /\ last.masks = watched.call.masks
    /\ last.actions = watched.call.actions
    /\ rng # watched.rng

\* C9: a module whose action spec has neither continuous nor discrete
\* actions is never constructed.
C9_DegenerateSpecRejected ==
    ~(continuous_act_size = 0 /\ discrete_act_size = 0)

\* C10: no call, failing or not, changes the split plan, the factories or the
\* stored sizes, and the instances a call uses are made from that call's own
\* encoding, never kept from an earlier call.
C10_FrameAndFresh ==
    [][/\ _split_list' = _split_list
       /\ _distributions' = _distributions
       /\ continuous_act_size' = continuous_act_size
       /\ discrete_act_size' = discrete_act_size
       /\ discrete_act_branches' = discrete_act_branches
       /\ \A i \in 1..Len(last'.dists) : last'.dists[i].enc = last'.inputs]_vars

C10_Witness ==
    /\ last.op = "evaluate" /\ ~last.ok /\ last.got_dists
    /\ _split_list = <<3, 1, 1>>

====
